---- MODULE Spec2Model ----
(***************************************************************************)
(* Model of cacaluploader/upload_adapters.py: the CalDAV and the Exchange  *)
(* upload adapter as one state machine per adapter object, with the remote *)
(* calendar of the provider as part of the state.                          *)
(*                                                                         *)
(* A Python str is a sequence of one-character strings.  An optional str   *)
(* (a value that may be None) is a sequence of length 0 (None) or 1 (the   *)
(* str), so that None and the empty str differ.                            *)
(***************************************************************************)
EXTENDS Integers, Sequences, FiniteSets, TLC

VARIABLES variant, url, calendar_name, calendar, events, remote, last, codec

vars == <<variant, url, calendar_name, calendar, events, remote, last, codec>>

adapterVars == <<variant, url, calendar_name, calendar, events, remote, last>>

\* ------------------------------------------------------------------ bounds

\* Longest uid of the identifier codec's inputs.
MaxUidLen == 3

\* Most events the remote calendar holds.
MaxRemote == 2

\* Most calendars (folders) the provider lists at a connect.
MaxCalendars == 2

\* ----------------------------------------------------------------- strings

None == <<>>

Some(s) == <<s>>

\* CalendarUploadAdapter._separator
separator == <<"-", "|", "-">>

\* Whether p occurs in s at position i.
OccursAt(s, p, i) ==
    /\ i >= 1
    /\ i + Len(p) - 1 <= Len(s)
    /\ \A k \in 1..Len(p) : s[i + k - 1] = p[k]

\* str.find from position i: the first position >= i where p occurs, 0 if none.
Find(s, p, i) ==
    LET hits == {j \in i..Len(s) : OccursAt(s, p, j)}
    IN  IF hits = {} THEN 0 ELSE CHOOSE j \in hits : \A h \in hits : j <= h

Contains(s, p) == Find(s, p, 1) # 0

EndsWith(s, p) == Len(p) <= Len(s) /\ OccursAt(s, p, Len(s) - Len(p) + 1)

\* A split that steps one character short over the separator it has found.
RECURSIVE SplitOffByOne(_, _)
SplitOffByOne(s, sep) ==
    LET j == Find(s, sep, 1)
    IN  IF j = 0
        THEN <<s>>
        ELSE <<SubSeq(s, 1, j - 1)>>
                 \o SplitOffByOne(SubSeq(s, j + Len(sep) - 1, Len(s)), sep)

\* str.split(sep): the parts between the occurrences of sep, found left to
\* right without overlap.
RECURSIVE Split(_, _)
Split(s, sep) ==
    LET j == Find(s, sep, 1)
    IN  IF j = 0
        THEN <<s>>
        ELSE <<SubSeq(s, 1, j - 1)>> \o Split(SubSeq(s, j + Len(sep), Len(s)), sep)

\* The extractor of CalDAVUploadAdapter.retrieve_event_ids: the tuple of the
\* parts of the raw id, with None put first when there is one part only.
extractor(raw_id) ==
    LET splitted_id == Split(raw_id, separator)
        parts == [i \in 1..Len(splitted_id) |-> Some(splitted_id[i])]
    IN  IF Len(splitted_id) = 1 THEN <<None>> \o parts ELSE parts

\* "Compute real event id" of CalDAVUploadAdapter.delete_event.
RealEventId(cal_uid, ev_uid) ==
    IF cal_uid # None THEN cal_uid[1] \o separator \o ev_uid ELSE ev_uid

\* ExchangeUploadAdapter._tag_re: (<!--.*?-->|<[^>]*>|\n|\r).  The length of
\* the match at position i, 0 if none; the alternatives are tried in order.
CommentOpen == <<"<", "!", "-", "-">>

CommentClose == <<"-", "-", ">">>

LineBreaks == {"\n", "\r"}

TagReMatch(body, i) ==
    LET close == Find(body, CommentClose, i + Len(CommentOpen))
        gt == Find(body, <<">">>, i + 1)
    IN  IF /\ OccursAt(body, CommentOpen, i)
           /\ close # 0
           /\ \A k \in (i + Len(CommentOpen))..(close - 1) : body[k] # "\n"
        THEN close + Len(CommentClose) - i
        ELSE IF body[i] = "<" /\ gt # 0
        THEN gt + 1 - i
        ELSE IF body[i] \in LineBreaks
        THEN 1
        ELSE 0

\* _tag_re.sub('', body) from position i on.
RECURSIVE TagReSubFrom(_, _)
TagReSubFrom(body, i) ==
    IF i > Len(body)
    THEN <<>>
    ELSE LET n == TagReMatch(body, i)
         IN  IF n = 0
             THEN <<body[i]>> \o TagReSubFrom(body, i + 1)
             ELSE TagReSubFrom(body, i + n)

TagReSub(body) == TagReSubFrom(body, 1)

\* ---------------------------------------------------------- provider, inputs

\* Calendar uids and event uids of the Event records handed to the adapter.
\* Neither contains the separator; one calendar uid ends with its first two
\* characters.
CalUids == {<<"c">>, <<"c", "-", "|">>}

EvUids == {<<"e">>}

OptCalUids == {None} \cup {Some(c) : c \in CalUids}

\* event.py's Event, as far as upload_adapters.py reads it.
EventInputs == [calender_uid : OptCalUids, uid : EvUids]

\* A remote event: ident is what the provider returns as the event's uid
\* (CalDAV: event.instance.vevent.uid.value) or body (Exchange: x.body);
\* origin is the Event it was created from by add_event (None: an event
\* that was in the calendar before).
RemoteEvent(ident, origin) ==
    [ident |-> ident, deleted |-> FALSE, origin |-> origin]

\* Events the calendar may hold before the adapter is used.
ForeignIdents(v) ==
    IF v = "CalDAV"
    THEN {<<"e">>}
    ELSE {<<"<", "b", ">", "e", "\n">>,
          <<"<", "!", "-", "-", ">", "-", "-", ">", "e">>}

InitialStores(v) ==
    {<<>>} \cup {<<RemoteEvent(i, None)>> : i \in ForeignIdents(v)}

\* Addresses of the calendars a principal sees; display names of folders.
Urls == {"u", "u/"}

FolderNames == {"n", "N"}

SeqsUpTo(S, n) == UNION {[1..k -> S] : k \in 0..n}

NoCalendar == [kind |-> "none", id |-> 0]

NoEvents == [set |-> FALSE, handles |-> <<>>]

EventList(handles) == [set |-> TRUE, handles |-> handles]

DomainErrors ==
    {"CalendarConnectionError", "EventRetrievalError", "EventUploadError",
     "EventDeletionError"}

Range(seq) == {seq[i] : i \in 1..Len(seq)}

\* The handles of the events the remote calendar holds.
Live(store) == {h \in 1..Len(store) : ~store[h].deleted}

\* calendar.date_search / calendar.list_events: the handles of the events of
\* the remote calendar in the window, in the calendar's order.  Which events
\* fall into a window [start_time, end_time] is the provider's to say:
\* inWindow is the set of those it places there.
RECURSIVE DateSearchFrom(_, _, _)
DateSearchFrom(store, inWindow, h) ==
    IF h > Len(store)
    THEN <<>>
    ELSE (IF ~store[h].deleted /\ h \in inWindow THEN <<h>> ELSE <<>>)
             \o DateSearchFrom(store, inWindow, h + 1)

DateSearch(store, inWindow) == DateSearchFrom(store, inWindow, 1)

\* The remote calendar after the deletion of the handles in deleted.
Deleted(store, deleted) ==
    [h \in 1..Len(store) |->
        IF h \in Range(deleted) THEN [store[h] EXCEPT !.deleted = TRUE] ELSE store[h]]

\* --------------------------------------------------------- CalDAVUploadAdapter

\* The positions of the calendars whose address is self.url, in order.
RECURSIVE UrlMatches(_, _, _)
UrlMatches(self_url, calendars, i) ==
    IF i > Len(calendars)
    THEN <<>>
    ELSE (IF self_url = calendars[i] THEN <<i>> ELSE <<>>)
             \o UrlMatches(self_url, calendars, i + 1)

\* A connect whose loop does not return at the first match.
CalDAVConnectLastMatch(self_url, self_calendar, authOk, calendars) ==
    LET found == UrlMatches(self_url, calendars, 1)
    IN  IF ~authOk
        THEN [outcome |-> "CalendarConnectionError", calendar |-> self_calendar,
              failed |-> TRUE]
        ELSE IF found # <<>>
        THEN [outcome |-> "ok",
              calendar |-> [kind |-> "calendar", id |-> found[Len(found)]],
              failed |-> FALSE]
        ELSE [outcome |-> "CalendarConnectionError", calendar |-> self_calendar,
              failed |-> TRUE]

\* connect: how the call ends and the calendar held after it.  authOk: the
\* provider accepts the credentials; calendars: what principal.calendars()
\* returns.
CalDAVConnectResult(self_url, self_calendar, authOk, calendars) ==
    LET found == UrlMatches(self_url, calendars, 1)
    IN  IF ~authOk
        THEN [outcome |-> "CalendarConnectionError", calendar |-> self_calendar,
              failed |-> TRUE]
        ELSE IF found # <<>>
        THEN [outcome |-> "ok", calendar |-> [kind |-> "calendar", id |-> found[1]],
              failed |-> FALSE]
        ELSE [outcome |-> "CalendarConnectionError", calendar |-> self_calendar,
              failed |-> TRUE]

\* A retrieve_event_ids that extends the cache instead of replacing it.
CalDAVRetrieveExtendsCache(self_calendar, self_events, store, inWindow, reportOk) ==
    IF self_calendar = NoCalendar
    THEN [outcome |-> "AttributeError", events |-> self_events, ret |-> <<>>,
          requests |-> 0, failed |-> FALSE]
    ELSE IF ~reportOk
    THEN [outcome |-> "EventRetrievalError", events |-> self_events, ret |-> <<>>,
          requests |-> 1, failed |-> TRUE]
    ELSE LET found == DateSearch(store, inWindow)
         IN  [outcome |-> "ok", events |-> EventList(self_events.handles \o found),
              ret |-> [i \in 1..Len(found) |-> extractor(store[found[i]].ident)],
              requests |-> 1, failed |-> FALSE]

\* retrieve_event_ids: reportOk: the provider answers the query.
CalDAVRetrieveResult(self_calendar, self_events, store, inWindow, reportOk) ==
    IF self_calendar = NoCalendar
    THEN [outcome |-> "AttributeError", events |-> self_events, ret |-> <<>>,
          requests |-> 0, failed |-> FALSE]
    ELSE IF ~reportOk
    THEN [outcome |-> "EventRetrievalError", events |-> self_events, ret |-> <<>>,
          requests |-> 1, failed |-> TRUE]
    ELSE LET found == DateSearch(store, inWindow)
         IN  [outcome |-> "ok", events |-> EventList(found),
              ret |-> [i \in 1..Len(found) |-> extractor(store[found[i]].ident)],
              requests |-> 1, failed |-> FALSE]

\* filter(lambda x: x.instance.vevent.uid.value == uid, self.events)
RECURSIVE Matching(_, _, _, _)
Matching(handles, store, uid, i) ==
    IF i > Len(handles)
    THEN <<>>
    ELSE (IF store[handles[i]].ident = uid THEN <<handles[i]>> ELSE <<>>)
             \o Matching(handles, store, uid, i + 1)

\* The position in matched of the handle whose deletion the provider rejects,
\* 0 if it rejects none of them.
FirstRejected(matched, reject) ==
    LET at == {k \in 1..Len(matched) : matched[k] = reject}
    IN  IF at = {} THEN 0 ELSE CHOOSE k \in at : \A j \in at : k <= j

\* A delete_event that stops after the first match.
CalDAVDeleteFirstMatchOnly(self_events, store, cal_uid, ev_uid, reject) ==
    LET uid == RealEventId(cal_uid, ev_uid)
        all == Matching(self_events.handles, store, uid, 1)
        matched == IF all = <<>> THEN <<>> ELSE <<all[1]>>
        k == FirstRejected(matched, reject)
    IN  IF ~self_events.set
        THEN [outcome |-> "TypeError", reqs |-> <<>>, deleted |-> <<>>,
              failed |-> FALSE]
        ELSE IF k = 0
        THEN [outcome |-> "ok", reqs |-> matched, deleted |-> matched,
              failed |-> FALSE]
        ELSE [outcome |-> "EventDeletionError", reqs |-> SubSeq(matched, 1, k),
              deleted |-> SubSeq(matched, 1, k - 1), failed |-> TRUE]

\* A delete_event that goes on after a rejection and raises at the end.
CalDAVDeleteSkipsRejected(self_events, store, cal_uid, ev_uid, reject) ==
    LET uid == RealEventId(cal_uid, ev_uid)
        matched == Matching(self_events.handles, store, uid, 1)
        k == FirstRejected(matched, reject)
    IN  IF ~self_events.set
        THEN [outcome |-> "TypeError", reqs |-> <<>>, deleted |-> <<>>,
              failed |-> FALSE]
        ELSE IF k = 0
        THEN [outcome |-> "ok", reqs |-> matched, deleted |-> matched,
              failed |-> FALSE]
        ELSE [outcome |-> "EventDeletionError",
              reqs |-> SubSeq(matched, 1, k - 1)
                         \o SubSeq(matched, k + 1, Len(matched)) \o <<matched[k]>>,
              deleted |-> SubSeq(matched, 1, k - 1)
                            \o SubSeq(matched, k + 1, Len(matched)),
              failed |-> TRUE]

\* A delete_event that takes an unset cache for an empty one.
CalDAVDeleteNoneAsEmpty(self_events, store, cal_uid, ev_uid, reject) ==
    LET uid == RealEventId(cal_uid, ev_uid)
        matched == Matching(self_events.handles, store, uid, 1)
        k == FirstRejected(matched, reject)
    IN  IF k = 0
        THEN [outcome |-> "ok", reqs |-> matched, deleted |-> matched,
              failed |-> FALSE]
        ELSE [outcome |-> "EventDeletionError", reqs |-> SubSeq(matched, 1, k),
              deleted |-> SubSeq(matched, 1, k - 1), failed |-> TRUE]

\* delete_event: reqs are the handles a delete request was issued for,
\* deleted those the provider deleted.
CalDAVDeleteResult(self_events, store, cal_uid, ev_uid, reject) ==
    LET uid == RealEventId(cal_uid, ev_uid)
        matched == Matching(self_events.handles, store, uid, 1)
        k == FirstRejected(matched, reject)
    IN  IF ~self_events.set
        THEN [outcome |-> "TypeError", reqs |-> <<>>, deleted |-> <<>>,
              failed |-> FALSE]
        ELSE IF k = 0
        THEN [outcome |-> "ok", reqs |-> matched, deleted |-> matched,
              failed |-> FALSE]
        ELSE [outcome |-> "EventDeletionError", reqs |-> SubSeq(matched, 1, k),
              deleted |-> SubSeq(matched, 1, k - 1), failed |-> TRUE]

\* An add_event that sends the event's own uid only.
NewEventUidBare(event) == event.uid

\* new_event.add('uid', event.calender_uid + separator + event.uid)
NewEventUid(event) == event.calender_uid[1] \o separator \o event.uid

\* add_event: putOk: the provider accepts the write.
CalDAVAddResult(self_calendar, store, event, putOk) ==
    IF event.calender_uid = None
    THEN [outcome |-> "TypeError", store |-> store, requests |-> 0,
          failed |-> FALSE]
    ELSE IF self_calendar = NoCalendar
    THEN [outcome |-> "AttributeError", store |-> store, requests |-> 0,
          failed |-> FALSE]
    ELSE IF ~putOk
    THEN [outcome |-> "EventUploadError", store |-> store, requests |-> 1,
          failed |-> TRUE]
    ELSE [outcome |-> "ok",
          store |-> Append(store,
                           RemoteEvent(NewEventUid(event), Some(event))),
          requests |-> 1, failed |-> FALSE]

CalDAVConnect ==
    /\ variant = "CalDAV"
    /\ \E authOk \in BOOLEAN :
       \E calendars \in (IF authOk THEN SeqsUpTo(Urls, MaxCalendars) ELSE {<<>>}) :
         LET r == CalDAVConnectResult(url, calendar, authOk, calendars)
         IN  /\ calendar' = r.calendar
             /\ last' = [op |-> "connect", outcome |-> r.outcome, failed |-> r.failed,
                         authOk |-> authOk, calendars |-> calendars]
    /\ UNCHANGED <<variant, url, calendar_name, events, remote, codec>>

CalDAVRetrieveEventIds ==
    /\ variant = "CalDAV"
    /\ \E inWindow \in SUBSET Live(remote), reportOk \in BOOLEAN :
         LET r == CalDAVRetrieveResult(calendar, events, remote, inWindow, reportOk)
         IN  /\ events' = r.events
             /\ last' = [op |-> "retrieve_event_ids", outcome |-> r.outcome,
                         failed |-> r.failed, inWindow |-> inWindow,
                         ret |-> r.ret,
                         requests |-> r.requests]
    /\ UNCHANGED <<variant, url, calendar_name, calendar, remote, codec>>

\* A delete_event that drops the handles it has deleted from the cache.
CalDAVDeleteEventPrunesCache ==
    /\ variant = "CalDAV"
    /\ \E cal_uid \in OptCalUids, ev_uid \in EvUids :
       \E reject \in {0} \cup Range(Matching(events.handles, remote,
                                            RealEventId(cal_uid, ev_uid), 1)) :
         LET r == CalDAVDeleteResult(events, remote, cal_uid, ev_uid, reject)
         IN  /\ remote' = Deleted(remote, r.deleted)
             /\ events' = [events EXCEPT
                             !.handles = SelectSeq(events.handles,
                                                   LAMBDA h : h \notin Range(r.deleted))]
             /\ last' = [op |-> "delete_event", outcome |-> r.outcome,
                         failed |-> r.failed, cal_uid |-> cal_uid,
                         ev_uid |-> ev_uid, reqs |-> r.reqs,
                         deleted |-> r.deleted]
    /\ UNCHANGED <<variant, url, calendar_name, calendar, codec>>

CalDAVDeleteEvent ==
    /\ variant = "CalDAV"
    /\ \E cal_uid \in OptCalUids, ev_uid \in EvUids :
       \E reject \in {0} \cup Range(Matching(events.handles, remote,
                                            RealEventId(cal_uid, ev_uid), 1)) :
         LET r == CalDAVDeleteResult(events, remote, cal_uid, ev_uid, reject)
         IN  /\ remote' = Deleted(remote, r.deleted)
             /\ last' = [op |-> "delete_event", outcome |-> r.outcome,
                         failed |-> r.failed, cal_uid |-> cal_uid,
                         ev_uid |-> ev_uid, reqs |-> r.reqs,
                         deleted |-> r.deleted]
    /\ UNCHANGED <<variant, url, calendar_name, calendar, events, codec>>

CalDAVAddEvent ==
    /\ variant = "CalDAV"
    /\ \E event \in EventInputs, putOk \in BOOLEAN :
         LET r == CalDAVAddResult(calendar, remote, event, putOk)
         IN  /\ Len(r.store) <= MaxRemote
             /\ remote' = r.store
             /\ last' = [op |-> "add_event", outcome |-> r.outcome,
                         failed |-> r.failed, event |-> event,
                         requests |-> r.requests]
    /\ UNCHANGED <<variant, url, calendar_name, calendar, events, codec>>

\* ------------------------------------------------------- ExchangeUploadAdapter

\* The positions of the folders whose display name is self.calendar_name.
RECURSIVE NameMatches(_, _, _)
NameMatches(name, folders, i) ==
    IF i > Len(folders)
    THEN <<>>
    ELSE (IF folders[i] = name THEN <<i>> ELSE <<>>)
             \o NameMatches(name, folders, i + 1)

\* connect: serviceOk: the provider answers find_folder; folders: the display
\* names of the folders it returns.  The loop has no break: the last folder
\* of that name is taken.  Nothing catches the transport's own exceptions.
ExchangeConnectResult(self_calendar_name, self_calendar, serviceOk, folders) ==
    IF self_calendar_name = None
    THEN [outcome |-> "ok", calendar |-> [kind |-> "default", id |-> 0],
          failed |-> FALSE]
    ELSE IF ~serviceOk
    THEN [outcome |-> "TransportError", calendar |-> self_calendar, failed |-> TRUE]
    ELSE LET found == NameMatches(self_calendar_name[1], folders, 1)
         IN  IF found = <<>>
             THEN [outcome |-> "CalendarConnectionError", calendar |-> self_calendar,
                   failed |-> TRUE]
             ELSE [outcome |-> "ok",
                   calendar |-> [kind |-> "folder", id |-> found[Len(found)]],
                   failed |-> FALSE]

\* retrieve_event_ids: listOk: the provider answers list_events.
ExchangeRetrieveResult(self_calendar, self_events, store, inWindow, listOk) ==
    IF self_calendar = NoCalendar
    THEN [outcome |-> "AttributeError", events |-> self_events, ret |-> <<>>,
          requests |-> 0, failed |-> FALSE]
    ELSE IF ~listOk
    THEN [outcome |-> "TransportError", events |-> self_events, ret |-> <<>>,
          requests |-> 1, failed |-> TRUE]
    ELSE LET found == DateSearch(store, inWindow)
         IN  [outcome |-> "ok", events |-> EventList(found),
              ret |-> [i \in 1..Len(found) |-> TagReSub(store[found[i]].ident)],
              requests |-> 1, failed |-> FALSE]

\* delete_event: filter() of None raises TypeError; the lambda reads the name
\* uid, which is neither a parameter nor a global, as soon as the loop asks
\* the filter for its first element.
ExchangeDeleteResult(self_events, store, cal_uid, ev_uid) ==
    IF ~self_events.set
    THEN [outcome |-> "TypeError", reqs |-> <<>>, deleted |-> <<>>, failed |-> FALSE]
    ELSE IF self_events.handles = <<>>
    THEN [outcome |-> "ok", reqs |-> <<>>, deleted |-> <<>>, failed |-> FALSE]
    ELSE [outcome |-> "NameError", reqs |-> <<>>, deleted |-> <<>>, failed |-> FALSE]

\* add_event: createOk: the provider accepts the new event.
ExchangeAddResult(self_calendar, store, event, createOk) ==
    IF self_calendar = NoCalendar
    THEN [outcome |-> "AttributeError", store |-> store, requests |-> 0,
          failed |-> FALSE]
    ELSE IF ~createOk
    THEN [outcome |-> "TransportError", store |-> store, requests |-> 1,
          failed |-> TRUE]
    ELSE [outcome |-> "ok",
          store |-> Append(store, RemoteEvent(event.uid, Some(event))),
          requests |-> 1, failed |-> FALSE]

ExchangeConnect ==
    /\ variant = "Exchange"
    /\ \E serviceOk \in (IF calendar_name = None THEN {TRUE} ELSE BOOLEAN) :
       \E folders \in (IF calendar_name # None /\ serviceOk
                       THEN SeqsUpTo(FolderNames, MaxCalendars)
                       ELSE {<<>>}) :
         LET r == ExchangeConnectResult(calendar_name, calendar, serviceOk, folders)
         IN  /\ calendar' = r.calendar
             /\ last' = [op |-> "connect", outcome |-> r.outcome, failed |-> r.failed,
                         authOk |-> serviceOk, calendars |-> folders]
    /\ UNCHANGED <<variant, url, calendar_name, events, remote, codec>>

ExchangeRetrieveEventIds ==
    /\ variant = "Exchange"
    /\ \E inWindow \in SUBSET Live(remote), listOk \in BOOLEAN :
         LET r == ExchangeRetrieveResult(calendar, events, remote, inWindow, listOk)
         IN  /\ events' = r.events
             /\ last' = [op |-> "retrieve_event_ids", outcome |-> r.outcome,
                         failed |-> r.failed, inWindow |-> inWindow,
                         ret |-> r.ret,
                         requests |-> r.requests]
    /\ UNCHANGED <<variant, url, calendar_name, calendar, remote, codec>>

ExchangeDeleteEvent ==
    /\ variant = "Exchange"
    /\ \E cal_uid \in OptCalUids, ev_uid \in EvUids :
         LET r == ExchangeDeleteResult(events, remote, cal_uid, ev_uid)
         IN  /\ remote' = Deleted(remote, r.deleted)
             /\ last' = [op |-> "delete_event", outcome |-> r.outcome,
                         failed |-> r.failed, cal_uid |-> cal_uid,
                         ev_uid |-> ev_uid, reqs |-> r.reqs,
                         deleted |-> r.deleted]
    /\ UNCHANGED <<variant, url, calendar_name, calendar, events, codec>>

ExchangeAddEvent ==
    /\ variant = "Exchange"
    /\ \E event \in EventInputs, createOk \in BOOLEAN :
         LET r == ExchangeAddResult(calendar, remote, event, createOk)
         IN  /\ Len(r.store) <= MaxRemote
             /\ remote' = r.store
             /\ last' = [op |-> "add_event", outcome |-> r.outcome,
                         failed |-> r.failed, event |-> event,
                         requests |-> r.requests]
    /\ UNCHANGED <<variant, url, calendar_name, calendar, events, codec>>

\* ------------------------------------------------------------ specification

CodecIdle ==
    [phase |-> "idle", cal_uid |-> None, ev_uid |-> <<>>, raw_id |-> <<>>,
     decoded |-> <<>>]

\* The adapter as its constructor leaves it: no calendar, no cached events.
Constructed(v) ==
    /\ variant = v
    /\ url = (IF v = "CalDAV" THEN "u" ELSE "ews")
    /\ calendar = NoCalendar
    /\ events = NoEvents
    /\ last = [op |-> "__init__", outcome |-> "ok", failed |-> FALSE]

Init ==
    /\ \E v \in {"CalDAV", "Exchange"} :
         /\ Constructed(v)
         /\ calendar_name \in
              (IF v = "CalDAV" THEN {None} ELSE {None, Some("n")})
         /\ remote \in InitialStores(v)
    /\ codec = CodecIdle

Next ==
    \/ CalDAVConnect
    \/ CalDAVRetrieveEventIds
    \/ CalDAVDeleteEvent
    \/ CalDAVAddEvent
    \/ ExchangeConnect
    \/ ExchangeRetrieveEventIds
    \/ ExchangeDeleteEvent
    \/ ExchangeAddEvent

Spec == Init /\ [][Next]_vars

\* The identifier codec on its own: a pair of uids, encoded as delete_event
\* encodes it, then decoded as retrieve_event_ids decodes it.
UidChars == {"-", "|", "a"}

Uids == SeqsUpTo(UidChars, MaxUidLen)

CodecInit ==
    /\ Constructed("CalDAV")
    /\ calendar_name = None
    /\ remote = <<>>
    /\ \E c \in {None} \cup {Some(u) : u \in Uids}, e \in Uids :
         codec = [phase |-> "input", cal_uid |-> c, ev_uid |-> e,
                  raw_id |-> <<>>, decoded |-> <<>>]

CodecEncode ==
    /\ codec.phase = "input"
    /\ codec' = [codec EXCEPT !.phase = "encoded",
                              !.raw_id = RealEventId(codec.cal_uid, codec.ev_uid)]
    /\ UNCHANGED adapterVars

CodecDecode ==
    /\ codec.phase = "encoded"
    /\ codec' = [codec EXCEPT !.phase = "decoded",
                              !.decoded = extractor(codec.raw_id)]
    /\ UNCHANGED adapterVars

CodecNext == CodecEncode \/ CodecDecode

CodecSpec == CodecInit /\ [][CodecNext]_vars

\* ------------------------------------------------------------------- claims

IsCall(op) == last.op = op

\* The string delete_event looks for, written out.
Encoded(cal_uid, ev_uid) ==
    IF cal_uid = None THEN ev_uid ELSE cal_uid[1] \o <<"-", "|", "-">> \o ev_uid

Count(seq, x) == Cardinality({i \in 1..Len(seq) : seq[i] = x})

\* Whether the cached handle h is one the call delete_event(cal_uid, ev_uid)
\* is about.
IsMatch(h, cal_uid, ev_uid) ==
    /\ h \in Range(events.handles)
    /\ remote[h].ident = Encoded(cal_uid, ev_uid)

\* The position of handle h in the cache.
CachePos(h) == CHOOSE i \in 1..Len(events.handles) : events.handles[i] = h

\* Whether the uids of an Event decode unambiguously: neither holds the
\* separator, and the calendar uid does not end with the separator's first
\* two characters.
Unambiguous(cal, ev) ==
    /\ ~Contains(cal, separator)
    /\ ~Contains(ev, separator)
    /\ ~EndsWith(cal, <<"-", "|">>)

\* C1 as stated: for every cal_uid that is present and does not contain the
\* separator, and every ev_uid, decoding cal_uid + '-|-' + ev_uid yields
\* (cal_uid, ev_uid).
C1_RoundTripAnyEventUid ==
    (/\ codec.phase = "decoded"
     /\ codec.cal_uid # None
     /\ ~Contains(codec.cal_uid[1], separator))
        => codec.decoded = <<codec.cal_uid, Some(codec.ev_uid)>>

\* C1 amended: the round trip holds for every pair in which cal_uid is
\* present, neither cal_uid nor ev_uid contains the separator, and cal_uid
\* does not end with "-|".
C1_RoundTrip ==
    (/\ codec.phase = "decoded"
     /\ codec.cal_uid # None
     /\ Unambiguous(codec.cal_uid[1], codec.ev_uid))
        => codec.decoded = <<codec.cal_uid, Some(codec.ev_uid)>>

C1_Witness ==
    /\ codec.phase = "decoded"
    /\ codec.cal_uid = Some(<<"a", "-">>)
    /\ codec.ev_uid = <<"|", "-", "a">>
    /\ codec.decoded = <<Some(<<"a", "-">>), Some(<<"|", "-", "a">>)>>

\* C2: after a successful retrieve_event_ids of the CalDAV adapter the cache
\* holds exactly the handles the query returned (the remote events the
\* provider places in the window, in the calendar's order, nothing of an
\* earlier cache), the returned sequence is as long as the cache, and its
\* i-th element is the decoding of the i-th cached handle's native id.
C2_CacheIsQueryResult ==
    (variant = "CalDAV" /\ IsCall("retrieve_event_ids") /\ last.outcome = "ok")
        => /\ events.set
           /\ Range(events.handles) = last.inWindow \cap Live(remote)
           /\ \A i, j \in 1..Len(events.handles) :
                i < j => events.handles[i] < events.handles[j]
           /\ Len(last.ret) = Len(events.handles)
           /\ \A i \in 1..Len(events.handles) :
                last.ret[i] = extractor(remote[events.handles[i]].ident)

C2_Witness ==
    /\ variant = "CalDAV"
    /\ IsCall("retrieve_event_ids")
    /\ last.outcome = "ok"
    /\ Len(events.handles) = 1
    /\ Len(remote) = 2
    /\ last.ret = <<<<Some(<<"c">>), Some(<<"e">>)>>>>

\* C3: a CalDAV delete_event in which the provider rejects no deletion issues
\* exactly one delete request for each cached handle whose native id is the
\* encoded string and none for any other handle, duplicates and zero matches
\* included; with a cache to look in, it returns without error.
C3_DeleteIssuesExactlyMatches ==
    (variant = "CalDAV" /\ IsCall("delete_event") /\ ~last.failed)
        => /\ \A h \in 1..Len(remote) :
                Count(last.reqs, h) =
                    (IF IsMatch(h, last.cal_uid, last.ev_uid) THEN 1 ELSE 0)
           /\ Range(last.reqs) \subseteq 1..Len(remote)
           /\ events.set => last.outcome = "ok"

C3_Witness ==
    /\ variant = "CalDAV"
    /\ IsCall("delete_event")
    /\ ~last.failed
    /\ last.outcome = "ok"
    /\ Len(last.reqs) = 2

\* C4 as stated: a delete_event that ends in an error has deleted no remote
\* event.
C4_DeleteIsAtomic ==
    (IsCall("delete_event") /\ last.outcome # "ok") => last.deleted = <<>>

\* C4 amended: a delete_event that ends in an error has deleted exactly the
\* matching cached handles that come, in cache order, before the first one
\* whose deletion the provider rejected, and none when the error is no
\* rejection; the rejected handle is the last one a request was issued for.
C4_DeletesUpToFirstRejection ==
    (IsCall("delete_event") /\ last.outcome # "ok")
        => IF ~last.failed
           THEN last.reqs = <<>> /\ last.deleted = <<>>
           ELSE LET rejected == last.reqs[Len(last.reqs)]
                IN  /\ last.outcome = "EventDeletionError"
                    /\ IsMatch(rejected, last.cal_uid, last.ev_uid)
                    /\ Range(last.deleted) =
                         {h \in 1..Len(remote) :
                            /\ IsMatch(h, last.cal_uid, last.ev_uid)
                            /\ CachePos(h) < CachePos(rejected)}
                    /\ \A h \in Range(last.deleted) : remote[h].deleted

C4_Witness ==
    /\ variant = "CalDAV"
    /\ IsCall("delete_event")
    /\ last.outcome = "EventDeletionError"
    /\ Len(last.deleted) = 1
    /\ Len(last.reqs) = 2

\* C5: a CalDAV connect in which authentication is rejected, or in which no
\* calendar's address equals the configured one, ends in
\* CalendarConnectionError and leaves the calendar handle as it was; one in
\* which some calendar's address equals it holds the first such calendar.
C5_ConnectOutcome ==
    [][(variant = "CalDAV" /\ last'.op = "connect")
         => LET matching == {i \in 1..Len(last'.calendars) : last'.calendars[i] = url}
            IN  IF ~last'.authOk \/ matching = {}
                THEN /\ last'.outcome = "CalendarConnectionError"
                     /\ calendar' = calendar
                ELSE /\ last'.outcome = "ok"
                     /\ calendar'.kind = "calendar"
                     /\ calendar'.id \in matching
                     /\ \A i \in matching : calendar'.id <= i]_vars

C5_Witness ==
    /\ variant = "CalDAV"
    /\ IsCall("connect")
    /\ last.authOk
    /\ last.outcome = "CalendarConnectionError"
    /\ last.calendars = <<"u/">>
    /\ calendar = [kind |-> "calendar", id |-> 1]

\* The domain error kind of each operation.
DomainErrorOf(op) ==
    CASE op = "connect" -> "CalendarConnectionError"
      [] op = "retrieve_event_ids" -> "EventRetrievalError"
      [] op = "add_event" -> "EventUploadError"
      [] op = "delete_event" -> "EventDeletionError"
      [] OTHER -> "ok"

\* C6: in either adapter, a call in which the provider reported a failure
\* ends in the domain error kind of its operation.
C6_ProviderFailureIsDomainError ==
    last.failed => last.outcome = DomainErrorOf(last.op)

\* C7: an Exchange delete_event with a cache (empty or not) issues a cancel
\* request for exactly the cached events whose cleaned body is the
\* identifier passed to the call, and returns without error.
C7_ExchangeDeleteCancelsMatches ==
    (variant = "Exchange" /\ IsCall("delete_event") /\ events.set)
        => /\ last.outcome = "ok"
           /\ \A h \in 1..Len(remote) :
                Count(last.reqs, h) =
                    (IF /\ h \in Range(events.handles)
                        /\ TagReSub(remote[h].ident) = last.ev_uid
                     THEN 1
                     ELSE 0)

\* C8: the cache changes in retrieve_event_ids only: connect, add_event and
\* delete_event, however they end, leave it as it was, so that an event
\* add_event has just created is not in it.
C8_CacheChangesOnlyInRetrieve ==
    [][last'.op # "retrieve_event_ids"
         => /\ events' = events
            /\ (last'.op = "add_event" /\ last'.outcome = "ok")
                 => Len(remote') \notin Range(events'.handles)]_vars

\* A delete_event has deleted a handle, and the handle is still cached.
C8_Witness ==
    /\ IsCall("delete_event")
    /\ last.deleted # <<>>
    /\ \A h \in Range(last.deleted) :
         remote[h].deleted /\ h \in Range(events.handles)

\* C9 as stated: in the CalDAV adapter, for every Event e that add_event has
\* created a remote event from, a successful retrieve_event_ids whose
\* result includes that event returns the pair (e.calendar_uid, e.uid), and
\* a following delete_event(e.calendar_uid, e.uid) that returns has issued
\* a delete request for the event's handle.
C9_AddedEventIsFoundByItsPair ==
    variant = "CalDAV"
        => /\ (IsCall("retrieve_event_ids") /\ last.outcome = "ok")
                => \A i \in 1..Len(events.handles) :
                     LET origin == remote[events.handles[i]].origin
                     IN  origin # None
                           => \E j \in 1..Len(last.ret) :
                                last.ret[j] = <<origin[1].calender_uid,
                                                Some(origin[1].uid)>>
           /\ (IsCall("delete_event") /\ last.outcome = "ok")
                => \A h \in Range(events.handles) :
                     LET origin == remote[h].origin
                     IN  (/\ origin # None
                          /\ origin[1].calender_uid = last.cal_uid
                          /\ origin[1].uid = last.ev_uid)
                           => h \in Range(last.reqs)

\* C9 amended: the same for every Event e whose calendar_uid is present,
\* whose calendar_uid and uid do not contain the separator and whose
\* calendar_uid does not end with "-|"; the pair is returned at the position
\* of the event's handle.  The delete request is issued for every Event
\* add_event has accepted.
C9_UnambiguousEventIsFoundByItsPair ==
    variant = "CalDAV"
        => /\ (IsCall("retrieve_event_ids") /\ last.outcome = "ok")
                => \A i \in 1..Len(events.handles) :
                     LET origin == remote[events.handles[i]].origin
                     IN  (/\ origin # None
                          /\ origin[1].calender_uid # None
                          /\ Unambiguous(origin[1].calender_uid[1], origin[1].uid))
                           => /\ i <= Len(last.ret)
                              /\ last.ret[i] = <<origin[1].calender_uid,
                                                 Some(origin[1].uid)>>
           /\ (IsCall("delete_event") /\ last.outcome = "ok")
                => \A h \in Range(events.handles) :
                     LET origin == remote[h].origin
                     IN  (/\ origin # None
                          /\ origin[1].calender_uid = last.cal_uid
                          /\ origin[1].uid = last.ev_uid)
                           => h \in Range(last.reqs)

\* A delete_event has issued a request for the cached handle of an event
\* that add_event created from the Event of the same uids.
C9_Witness ==
    /\ variant = "CalDAV"
    /\ IsCall("delete_event")
    /\ last.outcome = "ok"
    /\ last.cal_uid = Some(<<"c">>)
    /\ \E h \in Range(last.reqs) :
         /\ h \in Range(events.handles)
         /\ remote[h].origin = Some([calender_uid |-> last.cal_uid,
                                     uid |-> last.ev_uid])
         /\ remote[h].deleted

\* C10: in the CalDAV adapter, a delete_event while the cache is unset
\* issues no delete request and ends in an error that is not
\* EventDeletionError; a retrieve_event_ids or add_event while no calendar
\* is held issues no provider request and ends in an error that is no
\* domain error kind.
C10_CallOrder ==
    variant = "CalDAV"
        => /\ (IsCall("delete_event") /\ ~events.set)
                => /\ last.reqs = <<>>
                   /\ last.deleted = <<>>
                   /\ last.outcome \notin {"ok", "EventDeletionError"}
           /\ ((IsCall("retrieve_event_ids") \/ IsCall("add_event"))
                  /\ calendar = NoCalendar)
                => /\ last.requests = 0
                   /\ last.outcome \notin DomainErrors \cup {"ok"}

\* A delete_event after a connect, with no retrieve_event_ids before it.
C10_Witness ==
    /\ variant = "CalDAV"
    /\ IsCall("delete_event")
    /\ ~events.set
    /\ calendar # NoCalendar
    /\ last.outcome = "TypeError"

====
